---- MODULE Spec2Model ----
(***************************************************************************)
(* Model of srinivasarynh/age_calculator: the age computation              *)
(* (service.CalculateAge), the pagination policy (models.PaginationParams) *)
(* and the user CRUD path handler -> service -> repository.                *)
(***************************************************************************)
EXTENDS Integers, Sequences, FiniteSets, TLC

(***************************************************************************)
(* Bounds of the model.                                                    *)
(***************************************************************************)
\* first calendar year of the age specifications (a leap year)
AgeMinYear == 2000
\* the reference date ranges over the years AgeMinYear .. AgeMinYear + NowSpan
NowSpan == 1
\* the date of birth ranges over the years AgeMinYear .. AgeMinYear + DobSpan
DobSpan == 1
\* a page number so large that (page - 1) * page_size leaves the int32 range
WrapPage == 67108865
\* how many times SetDefaults is applied to one PaginationParams value
MaxSetDefaults == 2
\* the largest number of rows of the pre-populated table of SpecPage
MaxTotal == 101
\* the largest id the serial column hands out in Spec
MaxId == 2
\* how many days the clock advances in Spec
MaxTicks == 1

(***************************************************************************)
(* Calendar dates: Go's time.Time restricted to its (year, month, day),    *)
(* which is all the program reads (Year(), Month(), Day(), Format of a     *)
(* date layout, AddDate of whole years and days).                          *)
(***************************************************************************)
IsLeap(y) == (y % 4 = 0) /\ ((y % 100 # 0) \/ (y % 400 = 0))

DaysIn(y, m) ==
    IF m = 2 THEN (IF IsLeap(y) THEN 29 ELSE 28)
    ELSE IF m \in {4, 6, 9, 11} THEN 30 ELSE 31

MkDate(y, m, d) == [year |-> y, month |-> m, day |-> d]

ValidDate(y, m, d) == m \in 1..12 /\ d >= 1 /\ d <= DaysIn(y, m)

DatesOfYears(lo, hi) ==
    { MkDate(y, m, d) : y \in lo..hi, m \in 1..12, d \in 1..31 } \cap
    { t \in [year : lo..hi, month : 1..12, day : 1..31] :
        ValidDate(t.year, t.month, t.day) }

\* days in the years 1 .. y-1 (proleptic Gregorian calendar), y >= 1
DaysBeforeYear(y) ==
    365 * (y - 1) + ((y - 1) \div 4) - ((y - 1) \div 100) + ((y - 1) \div 400)

RECURSIVE DaysBeforeMonth(_, _)
DaysBeforeMonth(y, m) ==
    IF m <= 1 THEN 0 ELSE DaysBeforeMonth(y, m - 1) + DaysIn(y, m - 1)

\* time.Date(y, m, d, ...): the day count of a date whose day may lie outside
\* the month (it is added as an offset, which is how Go normalises it)
DayNum(y, m, d) == DaysBeforeYear(y) + DaysBeforeMonth(y, m) + (d - 1)

\* the calendar date of a day count
FromDayNum(n) ==
    LET y == CHOOSE yy \in ((n \div 366) - 1)..((n \div 365) + 2) :
                 yy >= 1 /\ DaysBeforeYear(yy) <= n /\ n < DaysBeforeYear(yy + 1)
        r == n - DaysBeforeYear(y)
        m == CHOOSE mm \in 1..12 :
                 DaysBeforeMonth(y, mm) <= r /\ r < DaysBeforeMonth(y, mm) + DaysIn(y, mm)
    IN  MkDate(y, m, r - DaysBeforeMonth(y, m) + 1)

\* t.AddDate(years, 0, days) = Date(t.Year()+years, t.Month(), t.Day()+days),
\* normalised: Feb 29 of a non-leap year becomes Mar 1
AddDate(t, years, days) == FromDayNum(DayNum(t.year + years, t.month, t.day + days))

PrevDay(t) == AddDate(t, 0, -1)
NextDay(t) == AddDate(t, 0, 1)

(***************************************************************************)
(* service.CalculateAge, with ref standing for time.Now().                 *)
(***************************************************************************)
CalculateAgeNoDayTest(dob, ref) ==
    IF ref.month < dob.month THEN (ref.year - dob.year) - 1 ELSE ref.year - dob.year

CalculateAgeDayLE(dob, ref) ==
    IF ref.month < dob.month \/ (ref.month = dob.month /\ ref.day <= dob.day)
    THEN (ref.year - dob.year) - 1
    ELSE ref.year - dob.year

CalculateAgeMonthLE(dob, ref) ==
    IF ref.month <= dob.month THEN (ref.year - dob.year) - 1 ELSE ref.year - dob.year

\* CalculateAge with the day test applied whatever the month
CalculateAgeDayOnly(dob, ref) ==
    IF ref.month < dob.month \/ ref.day < dob.day
    THEN (ref.year - dob.year) - 1
    ELSE ref.year - dob.year

CalculateAgeAt(dob, ref) ==
    LET age == ref.year - dob.year
    IN  IF ref.month < dob.month \/ (ref.month = dob.month /\ ref.day < dob.day)
        THEN age - 1
        ELSE age


(***************************************************************************)
(* models.PaginationParams: SetDefaults, GetOffset, GetLimit.              *)
(***************************************************************************)
DefaultPage == 1
DefaultPageSize == 10

SetDefaultsCoupled(p) ==
    IF p.Page = 0
    THEN [Page |-> DefaultPage, PageSize |-> DefaultPageSize]
    ELSE p

SetDefaults(p) ==
    [Page     |-> IF p.Page = 0 THEN DefaultPage ELSE p.Page,
     PageSize |-> IF p.PageSize = 0 THEN DefaultPageSize ELSE p.PageSize]

Abs(x) == IF x < 0 THEN -x ELSE x

\* int32(a * b) for Go ints a, b with |a| < 2^31 and |b| < 2^15: the product is
\* exact in Go's 64-bit int and the conversion keeps its low 32 bits as a
\* two's-complement number.  The product is formed from 16-bit halves so that
\* no intermediate value leaves the range of the model checker's integers.
Int32OfProduct(a, b) ==
    LET x    == Abs(a)
        y    == Abs(b)
        lo   == (x % (2^16)) * y
        hi   == (x \div (2^16)) * y + (lo \div (2^16))
        hi16 == hi % (2^16)
        lo16 == lo % (2^16)
        mag  == IF hi16 >= 2^15 THEN (hi16 - 2^16) * (2^16) + lo16
                                ELSE hi16 * (2^16) + lo16
        neg  == (a < 0) # (b < 0)
    IN  IF neg /\ mag # -(2^30) - 2^30 THEN -mag ELSE mag

GetOffset(p) == Int32OfProduct(p.Page - 1, p.PageSize)

GetLimit(p) == Int32OfProduct(p.PageSize, 1)

\* int(math.Ceil(float64(total) / float64(pageSize))).  For 0 <= total < 2^31
\* (ids are int32, so the table never holds more rows) and 0 < |pageSize| the
\* float64 quotient is within 2^-21 of the real quotient and exact when the
\* division is, so its ceiling is the ceiling of the real quotient.  pageSize is
\* never 0 here: ListUsers calls SetDefaults before it divides.
TotalPagesFloor(total, pageSize) == total \div pageSize

TotalPages(total, pageSize) ==
    IF pageSize > 0
    THEN (IF total % pageSize = 0 THEN total \div pageSize
                                  ELSE (total \div pageSize) + 1)
    ELSE -(total \div (-pageSize))


(***************************************************************************)
(* Date texts.  A text is a sequence of one-character strings.             *)
(* ParseDate is time.Parse("2006-01-02", text) and FormatDate is           *)
(* t.Format("2006-01-02"), for years 0..9999.                              *)
(***************************************************************************)
Digits == <<"0", "1", "2", "3", "4", "5", "6", "7", "8", "9">>

IsDigit(c) == \E i \in 1..10 : Digits[i] = c

DigitVal(c) == (CHOOSE i \in 1..10 : Digits[i] = c) - 1

DigitChar(n) == Digits[n + 1]

\* the layout's shape: four digits, "-", two digits, "-", two digits
HasDateShape(t) ==
    /\ Len(t) = 10
    /\ t[5] = "-" /\ t[8] = "-"
    /\ \A i \in {1, 2, 3, 4, 6, 7, 9, 10} : IsDigit(t[i])

TextYear(t) ==
    1000 * DigitVal(t[1]) + 100 * DigitVal(t[2]) + 10 * DigitVal(t[3]) + DigitVal(t[4])
TextMonth(t) == 10 * DigitVal(t[6]) + DigitVal(t[7])
TextDay(t) == 10 * DigitVal(t[9]) + DigitVal(t[10])

\* time.Parse returns no error: the shape fits and month and day are in range
ParseOk(t) == HasDateShape(t) /\ ValidDate(TextYear(t), TextMonth(t), TextDay(t))

ParseDate(t) == MkDate(TextYear(t), TextMonth(t), TextDay(t))

FormatDateDayMonth(d) ==
    <<DigitChar(d.year \div 1000), DigitChar((d.year \div 100) % 10),
      DigitChar((d.year \div 10) % 10), DigitChar(d.year % 10), "-",
      DigitChar(d.day \div 10), DigitChar(d.day % 10), "-",
      DigitChar(d.month \div 10), DigitChar(d.month % 10)>>

FormatDate(d) ==
    <<DigitChar(d.year \div 1000), DigitChar((d.year \div 100) % 10),
      DigitChar((d.year \div 10) % 10), DigitChar(d.year % 10), "-",
      DigitChar(d.month \div 10), DigitChar(d.month % 10), "-",
      DigitChar(d.day \div 10), DigitChar(d.day % 10)>>

(***************************************************************************)
(* Request validation (go-playground/validator tags of models/user.go).    *)
(***************************************************************************)
\* name with min=1 in place of min=2
ValidNameMin1(name) == Len(name) >= 1 /\ Len(name) <= 100

\* name: required,min=2,max=100
ValidName(name) == Len(name) >= 2 /\ Len(name) <= 100

\* dob: required,datetime=2006-01-02
ValidDob(t) == Len(t) > 0 /\ ParseOk(t)

\* Page: omitempty,min=1     PageSize: omitempty,min=1,max=100
\* (omitempty skips the other tags when the field holds its zero value)
ValidParams(p) ==
    /\ p.Page = 0 \/ p.Page >= 1
    /\ p.PageSize = 0 \/ (p.PageSize >= 1 /\ p.PageSize <= 100)

\* c.QueryParser(&params): a key that is absent, or whose value is no integer,
\* leaves the field at its zero value (the handler logs the error and goes on)
QueryField(q) == IF q.kind = "int" THEN q.val ELSE 0

QueryParser(qPage, qSize) == [Page |-> QueryField(qPage), PageSize |-> QueryField(qSize)]

(***************************************************************************)
(* The users table: a function from the ids of its rows to the rows.       *)
(***************************************************************************)
NoRows == [i \in {} |-> 0]

\* models.User; the two timestamps are CURRENT_TIMESTAMP values, kept to the day
Row(id, name, dob, created_at, updated_at) ==
    [id |-> id, name |-> name, dob |-> dob,
     created_at |-> created_at, updated_at |-> updated_at]

\* ORDER BY id: the rows in ascending id order (ids i..hi, merged by halves)
RECURSIVE OrderByIdFrom(_, _, _)
OrderByIdFrom(table, i, hi) ==
    IF i > hi THEN <<>>
    ELSE IF i = hi THEN (IF i \in DOMAIN table THEN <<table[i]>> ELSE <<>>)
    ELSE LET mid == (i + hi) \div 2
         IN  OrderByIdFrom(table, i, mid) \o OrderByIdFrom(table, mid + 1, hi)

MinInt(a, b) == IF a < b THEN a ELSE b

\* ... LIMIT limit OFFSET offset of an ordered result
LimitOffset(sorted, limit, offset) ==
    IF offset >= Len(sorted) THEN <<>>
    ELSE SubSeq(sorted, offset + 1, MinInt(Len(sorted), offset + limit))

\* SELECT ... FROM users ORDER BY id LIMIT $1 OFFSET $2; top is the largest id
\* the serial column has handed out
SelectPage(table, top, limit, offset) ==
    LimitOffset(OrderByIdFrom(table, 1, top), limit, offset)

\* PostgreSQL rejects a negative LIMIT or OFFSET: the query returns an error
PageQueryOk(limit, offset) == limit >= 0 /\ offset >= 0

\* SELECT COUNT(*) FROM users
CountRows(table) == Cardinality(DOMAIN table)

(***************************************************************************)
(* Responses.                                                              *)
(***************************************************************************)
\* UserResponse with the age set whoever asks
UserResponseAlwaysAge(user, withAge, ref) ==
    [id   |-> user.id,
     name |-> user.name,
     dob  |-> FormatDate(user.dob),
     age  |-> <<CalculateAgeAt(user.dob, ref)>>]

\* models.UserResponse; age is the omitempty *int: <<>> when nil
UserResponseAt(user, withAge, ref) ==
    [id   |-> user.id,
     name |-> user.name,
     dob  |-> FormatDate(user.dob),
     age  |-> IF withAge THEN <<CalculateAgeAt(user.dob, ref)>> ELSE <<>>]

ErrorBody(msg) == [error |-> msg]

NoHeaders == [h \in {} |-> ""]

\* c.Status(status).JSON(body)
Response(status, body) == [status |-> status, headers |-> NoHeaders, body |-> body]

\* c.Set(key, value) on the response under construction
Set(r, key, value) == [r EXCEPT !.headers = (key :> value) @@ r.headers]

\* the errors a Store call returns: the driver's (the database is unreachable,
\* the context's deadline passed) and PostgreSQL's for a negative LIMIT or OFFSET
ErrBadConn == "driver: bad connection"
ErrDeadline == "context deadline exceeded"
ErrPageQuery == "pq: LIMIT/OFFSET must not be negative"

\* database/sql's ErrNoRows, which repository.Delete returns when no row matched
ErrNoRows == "sql: no rows in result set"

\* the failures that strike a Store call from outside: "" is none
StoreErrors == {ErrBadConn, ErrDeadline}

\* the request's context ending while a writing statement is under way, after
\* the server executed and committed it (autocommit, no transaction) and
\* before database/sql handed its answer over: the call returns ErrDeadline
\* and the statement has taken effect.  (ErrBadConn is returned only when
\* the server cannot have acted, which is why database/sql retries on it.)
DeadlineAfterCommit == "context deadline exceeded, the statement committed"

\* one Store call of a request: the method, its arguments, the value it
\* returned (<<>> for nil) and the error ("" for nil)
StoreCall(op, args, ret, err) == [op |-> op, args |-> args, ret |-> ret, err |-> err]

VARIABLES
    now,      \* the wall clock's current date (time.Now())
    calc,     \* the CalculateAge calls made: <<>> or <<[dob, age]>>
    edge,     \* progress and results of TestCalculateAgeEdgeCases
    pp,       \* the successive values of one PaginationParams under SetDefaults
    rows,     \* the users table
    nextId,   \* the next value of the id column's sequence
    req,      \* the last HTTP request: <<>> or <<request>>
    calls,    \* the Store calls the last request made, in order
    ctx,      \* the last request's c.Locals: <<>> or <<[requestID]>>
    svc,      \* what the Service returned to the last request's handler:
              \* <<>> if it was not called, else <<[val, err]>>
    resp,     \* the last HTTP response: <<>> or <<[status, headers, body]>>
    sub,      \* history: per id created and not since written again or deleted,
              \* the name and dob text create_user was sent and the date it
              \* was sent
    put,      \* history: per id updated and not since deleted (or written
              \* by an update that was answered with a failure), the name and
              \* dob text the last successful update_user was sent
    issued,   \* history: the ids INSERT has given its rows
    gone,     \* history: the ids DELETE has removed a row of
    inflight, \* the requests being served at the same time, per client: where
              \* each is and what it holds (<<>> when requests are served one
              \* after another)
    log       \* history: the Store statements and the responses of the
              \* requests served at the same time, in the order they happened

\* the database and what is remembered of it
store == <<rows, nextId, sub, put, issued, gone>>
\* the last request and its answer
exchange == <<req, ctx, calls, svc, resp>>
\* the requests in flight together and their schedule
concurrent == <<inflight, log>>
svcVars == <<store, exchange, concurrent>>
vars == <<now, calc, edge, pp, rows, nextId, req, ctx, calls, svc, resp, sub, put,
          issued, gone, inflight, log>>

\* no request has been served and the table is empty
ServiceIdle ==
    /\ rows = NoRows
    /\ nextId = 1
    /\ req = <<>>
    /\ ctx = <<>>
    /\ calls = <<>>
    /\ svc = <<>>
    /\ resp = <<>>
    /\ sub = NoRows
    /\ put = NoRows
    /\ issued = {}
    /\ gone = {}
    /\ inflight = <<>>
    /\ log = <<>>

CalculateAge(dob) == CalculateAgeAt(dob, now)

NowDates == DatesOfYears(AgeMinYear, AgeMinYear + NowSpan)
DobDates == DatesOfYears(AgeMinYear, AgeMinYear + DobSpan)

\* the number of years TestCalculateAgeEdgeCases shifts the current date back by
EdgeYears == 30

(***************************************************************************)
(* SpecAge: CalculateAge applied to every date of birth on every current   *)
(* date of the range.                                                      *)
(***************************************************************************)
InitAge ==
    /\ now \in NowDates
    /\ calc = <<>>
    /\ edge = <<>>
    /\ pp = <<>>
    /\ ServiceIdle

CallCalculateAge ==
    /\ calc = <<>>
    /\ \E dob \in DobDates :
          calc' = <<[dob |-> dob, age |-> CalculateAge(dob)]>>
    /\ UNCHANGED <<now, edge, pp, svcVars>>

NextAge == CallCalculateAge

SpecAge == InitAge /\ [][NextAge]_vars

(***************************************************************************)
(* SpecEdge: TestCalculateAgeEdgeCases run on every current date of the    *)
(* range.  edge holds one [dob, age] per CalculateAge call the test made.  *)
(***************************************************************************)
EdgeToday ==
    /\ Len(edge) = 0
    /\ LET dob == AddDate(now, -EdgeYears, 0)
       IN  edge' = <<[dob |-> dob, age |-> CalculateAge(dob)]>>
    /\ UNCHANGED <<now, calc, pp, svcVars>>

EdgeTomorrow ==
    /\ Len(edge) = 1
    /\ LET dob == AddDate(now, -EdgeYears, 1)
       IN  edge' = Append(edge, [dob |-> dob, age |-> CalculateAge(dob)])
    /\ UNCHANGED <<now, calc, pp, svcVars>>

EdgeYesterday ==
    /\ Len(edge) = 2
    /\ LET dob == AddDate(now, -EdgeYears, -1)
       IN  edge' = Append(edge, [dob |-> dob, age |-> CalculateAge(dob)])
    /\ UNCHANGED <<now, calc, pp, svcVars>>

NextEdge == EdgeToday \/ EdgeTomorrow \/ EdgeYesterday

SpecEdge == InitAge /\ [][NextEdge]_vars

(***************************************************************************)
(* SpecParams: SetDefaults applied, up to MaxSetDefaults times, to every   *)
(* PaginationParams value of the input range.                              *)
(***************************************************************************)
\* the values of page and page_size the model feeds in
PageInputs == {-1, 0, 1, 2, 3, WrapPage}
SizeInputs == {-1, 0, 1, 2, 3, 10, 64, 100, 101}

StartDate == MkDate(AgeMinYear + 1, 2, 28)

InitParams ==
    /\ now = StartDate
    /\ calc = <<>>
    /\ edge = <<>>
    /\ \E p \in [Page : PageInputs, PageSize : SizeInputs] : pp = <<p>>
    /\ ServiceIdle

CallSetDefaults ==
    /\ Len(pp) >= 1
    /\ Len(pp) <= MaxSetDefaults
    /\ pp' = Append(pp, SetDefaults(pp[Len(pp)]))
    /\ UNCHANGED <<now, calc, edge, svcVars>>

NextParams == CallSetDefaults

SpecParams == InitParams /\ [][NextParams]_vars

\* a query value: the key is absent, its value is no integer, or it is one
QAbsent == [kind |-> "absent", val |-> 0]
QBad == [kind |-> "bad", val |-> 0]
QInt(v) == [kind |-> "int", val |-> v]

QueryValues(ints) == {QAbsent, QBad} \cup {QInt(v) : v \in ints}

(***************************************************************************)
(* The repository (internal/repository/user_repository.go).  Each method   *)
(* is given the table it runs against and the failure that strikes its     *)
(* statement ("" for none): an error of StoreErrors strikes before the     *)
(* statement runs, DeadlineAfterCommit after a writing statement took      *)
(* effect.  It returns what the Go method returns and, where the statement *)
(* writes, the table it leaves.                                            *)
(***************************************************************************)
Insert(table, row) == table @@ (row.id :> row)

Remove(table, id) == [i \in (DOMAIN table) \ {id} |-> table[i]]

\* Create that runs its INSERT again after a failure and still reports the
\* failure: the row is written whatever struck the call
CreateFailsAfterInsert(table, seq, name, dob, ts, fault) ==
    LET user == Row(seq, name, dob, ts, ts)
    IN  IF fault # ""
        THEN [user |-> <<>>,
              err |-> IF fault = DeadlineAfterCommit THEN ErrDeadline ELSE fault,
              table |-> Insert(table, user), seq |-> seq + 1]
        ELSE [user |-> <<user>>, err |-> "",
              table |-> Insert(table, user), seq |-> seq + 1]

\* Create with an id column that takes the lowest id no row holds
CreateLowestFree(table, seq, name, dob, ts, fault) ==
    IF fault # ""
    THEN [user |-> <<>>, err |-> fault, table |-> table, seq |-> seq]
    ELSE LET free == CHOOSE i \in 1..seq : i \notin DOMAIN table
                                           /\ \A j \in 1..(i - 1) : j \in DOMAIN table
             user == Row(free, name, dob, ts, ts)
         IN  [user |-> <<user>>, err |-> "",
              table |-> Insert(table, user), seq |-> seq + 1]

\* INSERT INTO users (name, dob) VALUES ($1, $2) RETURNING ...: seq is the next
\* value of the id column's sequence, ts is CURRENT_TIMESTAMP
Create(table, seq, name, dob, ts, fault) ==
    LET user == Row(seq, name, dob, ts, ts)
    IN  IF fault = DeadlineAfterCommit
        THEN [user |-> <<>>, err |-> ErrDeadline,
              table |-> Insert(table, user), seq |-> seq + 1]
        ELSE IF fault # ""
        THEN [user |-> <<>>, err |-> fault, table |-> table, seq |-> seq]
        ELSE [user |-> <<user>>, err |-> "",
              table |-> Insert(table, user), seq |-> seq + 1]

\* SELECT ... WHERE id = $1: sql.ErrNoRows becomes (nil, nil)
GetById(table, id, fault) ==
    IF fault # "" THEN [user |-> <<>>, err |-> fault]
    ELSE IF id \in DOMAIN table THEN [user |-> <<table[id]>>, err |-> ""]
    ELSE [user |-> <<>>, err |-> ""]

\* SELECT ... ORDER BY id LIMIT $1 OFFSET $2
List(table, top, limit, offset, fault) ==
    IF fault # "" THEN [users |-> <<>>, err |-> fault]
    ELSE IF ~PageQueryOk(limit, offset) THEN [users |-> <<>>, err |-> ErrPageQuery]
    ELSE [users |-> SelectPage(table, top, limit, offset), err |-> ""]

\* Update with a statement that writes only a row no update has written yet
UpdateIfUnmodified(table, id, name, dob, ts, fault) ==
    IF fault # "" THEN [user |-> <<>>, err |-> fault, table |-> table]
    ELSE IF id \in DOMAIN table /\ table[id].updated_at = table[id].created_at
    THEN LET user == [table[id] EXCEPT !.name = name, !.dob = dob,
                                       !.updated_at = ts]
         IN  [user |-> <<user>>, err |-> "",
              table |-> [table EXCEPT ![id] = user]]
    ELSE [user |-> <<>>, err |-> "", table |-> table]

\* Update with a statement that also resets created_at
UpdateResetsCreatedAt(table, id, name, dob, ts, fault) ==
    IF fault # "" THEN [user |-> <<>>, err |-> fault, table |-> table]
    ELSE IF id \in DOMAIN table
    THEN LET user == Row(id, name, dob, ts, ts)
         IN  [user |-> <<user>>, err |-> "",
              table |-> [table EXCEPT ![id] = user]]
    ELSE [user |-> <<>>, err |-> "", table |-> table]

\* UPDATE users SET name = $1, dob = $2, updated_at = CURRENT_TIMESTAMP
\* WHERE id = $3 RETURNING ...: sql.ErrNoRows becomes (nil, nil)
Update(table, id, name, dob, ts, fault) ==
    LET user    == [table[id] EXCEPT !.name = name, !.dob = dob, !.updated_at = ts]
        written == IF id \in DOMAIN table THEN [table EXCEPT ![id] = user]
                   ELSE table
    IN  IF fault = DeadlineAfterCommit
        THEN [user |-> <<>>, err |-> ErrDeadline, table |-> written]
        ELSE IF fault # "" THEN [user |-> <<>>, err |-> fault, table |-> table]
        ELSE IF id \in DOMAIN table
        THEN [user |-> <<user>>, err |-> "", table |-> written]
        ELSE [user |-> <<>>, err |-> "", table |-> table]

\* Delete without its test of RowsAffected
DeleteUnchecked(table, id, fault) ==
    IF fault # "" THEN [err |-> fault, table |-> table]
    ELSE [err |-> "", table |-> Remove(table, id)]

\* DELETE FROM users WHERE id = $1: no row affected is sql.ErrNoRows
Delete(table, id, fault) ==
    IF fault = DeadlineAfterCommit
    THEN [err |-> ErrDeadline, table |-> Remove(table, id)]
    ELSE IF fault # "" THEN [err |-> fault, table |-> table]
    ELSE IF id \in DOMAIN table THEN [err |-> "", table |-> Remove(table, id)]
    ELSE [err |-> ErrNoRows, table |-> table]

\* SELECT COUNT(*) FROM users
Count(table, fault) ==
    IF fault # "" THEN [count |-> 0, err |-> fault]
    ELSE [count |-> CountRows(table), err |-> ""]

(***************************************************************************)
(* The service (internal/service/user_service.go).  A method returns the   *)
(* Store calls it made, its value (<<>> for nil), its error ("" for nil)   *)
(* and the table its calls left.                                           *)
(***************************************************************************)
ErrUserNotFound == "user not found"
ErrInvalidDate == "invalid date format"

ServiceCreateUser(table, seq, name, dobText, ref, fault) ==
    IF ~ParseOk(dobText)
    THEN [calls |-> <<>>, val |-> <<>>, err |-> ErrInvalidDate,
          table |-> table, seq |-> seq]
    ELSE LET dob == ParseDate(dobText)
             r   == Create(table, seq, name, dob, ref, fault)
         IN  [calls |-> <<StoreCall("Create", <<name, dob>>, r.user, r.err)>>,
              val   |-> IF r.err # "" THEN <<>>
                        ELSE <<UserResponseAt(r.user[1], FALSE, ref)>>,
              err   |-> r.err,
              table |-> r.table, seq |-> r.seq]

ServiceGetUser(table, id, ref, fault) ==
    LET r == GetById(table, id, fault)
    IN  [calls |-> <<StoreCall("GetById", <<id>>, r.user, r.err)>>,
         val   |-> IF r.err # "" \/ r.user = <<>> THEN <<>>
                   ELSE <<UserResponseAt(r.user[1], TRUE, ref)>>,
         err   |-> IF r.err # "" THEN r.err
                   ELSE IF r.user = <<>> THEN ErrUserNotFound ELSE ""]

\* ListUsers reporting the number of users on the page as the total
ListUsersReturnPageTotal(params, l, c, refs) ==
    LET p      == SetDefaults(params)
        list   == StoreCall("List", <<GetLimit(p), GetOffset(p)>>, l.users, l.err)
        count  == StoreCall("Count", <<>>, <<c.count>>, c.err)
    IN  IF l.err # "" THEN [calls |-> <<list>>, val |-> <<>>, err |-> l.err]
        ELSE IF c.err # "" THEN [calls |-> <<list, count>>, val |-> <<>>, err |-> c.err]
        ELSE [calls |-> <<list, count>>,
              val   |-> <<[users       |-> [k \in 1..Len(l.users) |->
                                              UserResponseAt(l.users[k], TRUE, refs[k])],
                           total       |-> Len(l.users),
                           page        |-> p.Page,
                           page_size   |-> p.PageSize,
                           total_pages |-> TotalPages(Len(l.users), p.PageSize)]>>,
              err   |-> ""]

\* what ListUsers makes of the answers l of repo.List and c of repo.Count
\* (Count is not called when List failed); refs[k] is what time.Now() shows
\* when CalculateAge is called for the k-th user
ListUsersReturn(params, l, c, refs) ==
    LET p      == SetDefaults(params)
        list   == StoreCall("List", <<GetLimit(p), GetOffset(p)>>, l.users, l.err)
        count  == StoreCall("Count", <<>>, <<c.count>>, c.err)
    IN  IF l.err # "" THEN [calls |-> <<list>>, val |-> <<>>, err |-> l.err]
        ELSE IF c.err # "" THEN [calls |-> <<list, count>>, val |-> <<>>, err |-> c.err]
        ELSE [calls |-> <<list, count>>,
              val   |-> <<[users       |-> [k \in 1..Len(l.users) |->
                                              UserResponseAt(l.users[k], TRUE, refs[k])],
                           total       |-> c.count,
                           page        |-> p.Page,
                           page_size   |-> p.PageSize,
                           total_pages |-> TotalPages(c.count, p.PageSize)]>>,
              err   |-> ""]

ServiceUpdateUser(table, id, name, dobText, ref, fault) ==
    IF ~ParseOk(dobText)
    THEN [calls |-> <<>>, val |-> <<>>, err |-> ErrInvalidDate, table |-> table]
    ELSE LET dob == ParseDate(dobText)
             r   == Update(table, id, name, dob, ref, fault)
         IN  [calls |-> <<StoreCall("Update", <<id, name, dob>>, r.user, r.err)>>,
              val   |-> IF r.err # "" \/ r.user = <<>> THEN <<>>
                        ELSE <<UserResponseAt(r.user[1], FALSE, ref)>>,
              err   |-> IF r.err # "" THEN r.err
                        ELSE IF r.user = <<>> THEN ErrUserNotFound ELSE "",
              table |-> r.table]

\* DeleteUser comparing with a text that is not ErrNoRows' text
IsNoRowsOtherText(err) == err = "no rows in result set"

\* the text DeleteUser takes for the Store's "no row"
IsNoRows(err) == err = "sql: no rows in result set"

ServiceDeleteUser(table, id, fault) ==
    LET r == Delete(table, id, fault)
    IN  [calls |-> <<StoreCall("Delete", <<id>>, <<>>, r.err)>>,
         val   |-> <<>>,
         err   |-> IF r.err = "" THEN ""
                   ELSE IF IsNoRows(r.err) THEN ErrUserNotFound ELSE r.err,
         table |-> r.table]

(***************************************************************************)
(* The middleware (internal/middleware/middleware.go) and what a request   *)
(* leaves behind.                                                          *)
(***************************************************************************)
\* the header RequestID reads and the header it sets
RequestIDHeader == "X-Request-ID"
ResponseIDHeader == "X-Request_ID"

\* middleware.RequestID: hdr is the request's X-Request-ID ("" when it has
\* none), uuid is what uuid.New().String() yields
RequestID(hdr, uuid) == IF hdr = "" THEN uuid ELSE hdr

HeaderInputs == {"", "req-7"}
UuidInputs == {"uuid-1", "uuid-2"}

\* fiber's error for a path no route matches (fiber is FALSE for an error of
\* any other type)
FiberError(code, message) == [fiber |-> TRUE, code |-> code, message |-> message]

\* middleware.ErrorHandler: locals is c.Locals (<<>> when requestID is not set)
ErrorHandler(locals, err) ==
    LET code      == IF err.fiber THEN err.code ELSE 500
        message   == IF err.fiber THEN err.message ELSE "Internal Server Error"
        requestID == IF locals = <<>> THEN "" ELSE locals[1].requestID
    IN  Response(code, [error |-> message, request_id |-> requestID])

\* one request through RequestID and its handler: the request, the Store
\* calls made, what the service returned, the response
Exchange(request, hdr, uuid, storeCalls, svcRet, response) ==
    LET requestID == RequestID(hdr, uuid)
    IN  /\ req' = <<request>>
        /\ ctx' = <<[requestID |-> requestID]>>
        /\ calls' = storeCalls
        /\ svc' = svcRet
        /\ resp' = <<Set(response, ResponseIDHeader, requestID)>>

\* a request answered before the service is called
Rejected(request, hdr, uuid, response) ==
    /\ Exchange(request, hdr, uuid, <<>>, <<>>, response)
    /\ UNCHANGED store

\* what the service returned, as the handler sees it
Returned(result) == <<[val |-> result.val, err |-> result.err]>>

(***************************************************************************)
(* The handlers (internal/handler/user_handler.go).                        *)
(***************************************************************************)
\* formatValidationErrors: one line per field, for the first tag it fails
Detail(field, tag) == field \o " validation failed on " \o tag

NameErrors(name) ==
    IF Len(name) = 0 THEN <<Detail("Name", "required")>>
    ELSE IF Len(name) < 2 THEN <<Detail("Name", "min")>>
    ELSE IF Len(name) > 100 THEN <<Detail("Name", "max")>>
    ELSE <<>>

DobErrors(t) ==
    IF Len(t) = 0 THEN <<Detail("DOB", "required")>>
    ELSE IF ~ParseOk(t) THEN <<Detail("DOB", "datetime")>>
    ELSE <<>>

ParamsErrors(p) ==
    (IF p.Page # 0 /\ p.Page < 1 THEN <<Detail("Page", "min")>> ELSE <<>>)
    \o (IF p.PageSize = 0 THEN <<>>
        ELSE IF p.PageSize < 1 THEN <<Detail("PageSize", "min")>>
        ELSE IF p.PageSize > 100 THEN <<Detail("PageSize", "max")>>
        ELSE <<>>)

ValidationBody(msg, details) == [error |-> msg, details |-> details]

\* a request body: BodyParser fails on it, or it yields the two fields ("" for
\* a field the JSON does not have)
Body(name, dob) == [parses |-> TRUE, name |-> name, dob |-> dob]
Malformed == [parses |-> FALSE, name |-> "", dob |-> <<>>]

\* the {id} of the path: an integer, or a text strconv.ParseInt(_, 10, 32) rejects
PathId(v) == [kind |-> "int", val |-> v]
BadPathId == [kind |-> "bad", val |-> 0]

\* the handlers' answers to what the service returned
CreateUserReply(result) ==
    IF result.err = "" THEN Response(201, result.val[1])
    ELSE IF result.err = ErrInvalidDate
    THEN Response(400, ErrorBody("Invalid date format. Expected YYYY-MM-DD"))
    ELSE Response(500, ErrorBody("Failed to create user"))

\* GetUser's answers with the error's text for the message of the 500
GetUserReplyEcho(result) ==
    IF result.err = "" THEN Response(200, result.val[1])
    ELSE IF result.err = ErrUserNotFound
    THEN Response(404, ErrorBody("User not found"))
    ELSE Response(500, ErrorBody(result.err))

GetUserReply(result) ==
    IF result.err = "" THEN Response(200, result.val[1])
    ELSE IF result.err = ErrUserNotFound
    THEN Response(404, ErrorBody("User not found"))
    ELSE Response(500, ErrorBody("Failed to get user"))

ListUsersReply(result) ==
    IF result.err = "" THEN Response(200, result.val[1])
    ELSE Response(500, ErrorBody("Failed to list users"))

\* UpdateUser's answers without its test for ErrUserNotFound
UpdateUserReplyNoNotFound(result) ==
    IF result.err = "" THEN Response(200, result.val[1])
    ELSE IF result.err = ErrInvalidDate
    THEN Response(400, ErrorBody("Invalid date format. Expected YYYY-MM-DD"))
    ELSE Response(500, ErrorBody("Failed to update user"))

UpdateUserReply(result) ==
    IF result.err = "" THEN Response(200, result.val[1])
    ELSE IF result.err = ErrUserNotFound
    THEN Response(404, ErrorBody("User not found"))
    ELSE IF result.err = ErrInvalidDate
    THEN Response(400, ErrorBody("Invalid date format. Expected YYYY-MM-DD"))
    ELSE Response(500, ErrorBody("Failed to update user"))

\* c.SendStatus(204): no body
NoContent == [empty |-> TRUE]

DeleteUserReply(result) ==
    IF result.err = "" THEN Response(204, NoContent)
    ELSE IF result.err = ErrUserNotFound
    THEN Response(404, ErrorBody("User not found"))
    ELSE Response(500, ErrorBody("Failed to delete user"))

(***************************************************************************)
(* The requests.  One action is one whole request: RequestID, the handler, *)
(* the service, the repository.  The sets name the inputs a specification  *)
(* feeds in: bodies, path ids, X-Request-ID headers, generated ids, Store  *)
(* failures.                                                               *)
(***************************************************************************)
\* POST /users
CreateRequest(bodies, hdrs, uuids, errs) ==
    \E body \in bodies, hdr \in hdrs, uuid \in uuids, fault \in {""} \cup errs :
        LET request == [op |-> "create", header |-> hdr, parses |-> body.parses,
                        name |-> body.name, dob |-> body.dob]
            result  == ServiceCreateUser(rows, nextId, body.name, body.dob, now, fault)
        IN  /\ IF ~body.parses
               THEN Rejected(request, hdr, uuid,
                             Response(400, ErrorBody("Invalid request body")))
               ELSE IF ~(ValidName(body.name) /\ ValidDob(body.dob))
               THEN Rejected(request, hdr, uuid,
                             Response(400, ValidationBody("Validation failed",
                                 NameErrors(body.name) \o DobErrors(body.dob))))
               ELSE /\ result.seq <= MaxId + 1
                    /\ Exchange(request, hdr, uuid, result.calls, Returned(result),
                                CreateUserReply(result))
                    /\ rows' = result.table
                    /\ nextId' = result.seq
                    /\ sub' = IF result.err = ""
                              THEN Insert(sub, [id |-> nextId, name |-> body.name,
                                                dob |-> body.dob, at |-> now])
                              ELSE sub
                    /\ issued' = IF result.seq # nextId THEN issued \cup {nextId}
                                 ELSE issued
                    /\ UNCHANGED <<put, gone>>
            /\ UNCHANGED <<now, calc, edge, pp, concurrent>>

\* GET /users/{id}
GetRequest(ids, hdrs, uuids, errs) ==
    \E idParam \in ids, hdr \in hdrs, uuid \in uuids, fault \in {""} \cup errs :
        LET request == [op |-> "get", header |-> hdr, id |-> idParam]
            result  == ServiceGetUser(rows, idParam.val, now, fault)
        IN  /\ IF idParam.kind = "bad"
               THEN Rejected(request, hdr, uuid,
                             Response(400, ErrorBody("Invalid user ID")))
               ELSE /\ Exchange(request, hdr, uuid, result.calls, Returned(result),
                                GetUserReply(result))
                    /\ UNCHANGED store
            /\ UNCHANGED <<now, calc, edge, pp, concurrent>>

\* GET /users?page=&page_size=, up to the first Store call of ListUsers:
\* QueryParser, validation, SetDefaults and repo.List.  A request that is
\* refused, or whose List fails, is answered; otherwise it is in flight with
\* the page it read, and whatever else is served before its second Store
\* call is served on the table as it then is.  (One list request is in
\* flight at a time here; SpecConcurrent has several.)
ListRequest(qPages, qSizes, hdrs, uuids, errs) ==
    /\ inflight = <<>>
    /\ \E qPage \in qPages, qSize \in qSizes, hdr \in hdrs, uuid \in uuids,
          fault \in {""} \cup errs :
          LET request == [op |-> "list", header |-> hdr,
                          page |-> qPage, page_size |-> qSize]
              params  == QueryParser(qPage, qSize)
              p       == SetDefaults(params)
              l       == List(rows, nextId - 1, GetLimit(p), GetOffset(p), fault)
              result  == ListUsersReturn(params, l, Count(rows, ""), <<>>)
          IN  IF ~ValidParams(params)
              THEN /\ Rejected(request, hdr, uuid,
                               Response(400, ValidationBody("Invalid pagination parameters",
                                                            ParamsErrors(params))))
                   /\ UNCHANGED inflight
              ELSE IF l.err # ""
              THEN /\ Exchange(request, hdr, uuid, result.calls, Returned(result),
                               ListUsersReply(result))
                   /\ UNCHANGED <<store, inflight>>
              ELSE /\ inflight' = <<[request |-> request, uuid |-> uuid, l |-> l]>>
                   /\ UNCHANGED <<store, exchange>>
    /\ UNCHANGED <<now, calc, edge, pp, log>>

\* the rest of the list request in flight: the second Store call of
\* ListUsers, repo.Count, on the table as it is now, then an age for each
\* user of the page, each from a time.Now() of its own, and the response.
\* laters holds the dates the clock can show by the end of that loop: the
\* readings are on the current date up to some user and on the later date
\* from there on.
ListRequestCount(errs, laters) ==
    /\ inflight # <<>>
    /\ LET held    == inflight[1]
           request == held.request
           params  == QueryParser(request.page, request.page_size)
           n       == Len(held.l.users)
       IN  \E fault \in {""} \cup errs, later \in laters :
           \E j \in IF later = now THEN {n + 1} ELSE 1..(n + 1) :
              LET c      == Count(rows, fault)
                  refs   == [k \in 1..n |-> IF k < j THEN now ELSE later]
                  result == ListUsersReturn(params, held.l, c, refs)
              IN  /\ Exchange(request, request.header, held.uuid, result.calls,
                              Returned(result), ListUsersReply(result))
                  /\ now' = IF j <= n /\ c.err = "" THEN later ELSE now
    /\ inflight' = <<>>
    /\ UNCHANGED <<store, calc, edge, pp, log>>

\* PUT /users/{id}
UpdateRequest(ids, bodies, hdrs, uuids, errs) ==
    \E idParam \in ids, body \in bodies, hdr \in hdrs, uuid \in uuids,
       fault \in {""} \cup errs :
        LET request == [op |-> "update", header |-> hdr, id |-> idParam,
                        parses |-> body.parses, name |-> body.name, dob |-> body.dob]
            result  == ServiceUpdateUser(rows, idParam.val, body.name, body.dob,
                                         now, fault)
        IN  /\ IF idParam.kind = "bad"
               THEN Rejected(request, hdr, uuid,
                             Response(400, ErrorBody("Invaid user ID")))
               ELSE IF ~body.parses
               THEN Rejected(request, hdr, uuid,
                             Response(400, ErrorBody("Invalid request body")))
               ELSE IF ~(ValidName(body.name) /\ ValidDob(body.dob))
               THEN Rejected(request, hdr, uuid,
                             Response(400, ValidationBody("Validation failed",
                                 NameErrors(body.name) \o DobErrors(body.dob))))
               ELSE /\ Exchange(request, hdr, uuid, result.calls, Returned(result),
                                UpdateUserReply(result))
                    /\ rows' = result.table
                    /\ IF result.err = ""
                       THEN /\ sub' = Remove(sub, idParam.val)
                            /\ put' = Insert(Remove(put, idParam.val),
                                             [id |-> idParam.val, name |-> body.name,
                                              dob |-> body.dob])
                       ELSE IF fault = DeadlineAfterCommit
                       THEN /\ sub' = Remove(sub, idParam.val)
                            /\ put' = Remove(put, idParam.val)
                       ELSE UNCHANGED <<sub, put>>
                    /\ UNCHANGED <<nextId, issued, gone>>
            /\ UNCHANGED <<now, calc, edge, pp, concurrent>>

\* DELETE /users/{id}
DeleteRequest(ids, hdrs, uuids, errs) ==
    \E idParam \in ids, hdr \in hdrs, uuid \in uuids, fault \in {""} \cup errs :
        LET request == [op |-> "delete", header |-> hdr, id |-> idParam]
            result  == ServiceDeleteUser(rows, idParam.val, fault)
        IN  /\ IF idParam.kind = "bad"
               THEN Rejected(request, hdr, uuid,
                             Response(400, ErrorBody("Invalid user ID")))
               ELSE /\ Exchange(request, hdr, uuid, result.calls, Returned(result),
                                DeleteUserReply(result))
                    /\ rows' = result.table
                    /\ IF result.table # rows
                       THEN /\ sub' = Remove(sub, idParam.val)
                            /\ put' = Remove(put, idParam.val)
                            /\ gone' = gone \cup {idParam.val}
                       ELSE UNCHANGED <<sub, put, gone>>
                    /\ UNCHANGED <<nextId, issued>>
            /\ UNCHANGED <<now, calc, edge, pp, concurrent>>

\* GET /health
HealthRequest(hdrs, uuids) ==
    \E hdr \in hdrs, uuid \in uuids :
        /\ Rejected([op |-> "health", header |-> hdr], hdr, uuid,
                    Response(200, [status |-> "ok", time |-> now]))
        /\ UNCHANGED <<now, calc, edge, pp, concurrent>>

\* a path no route matches: fiber hands its 404 error to the ErrorHandler
NoRouteRequest(hdrs, uuids) ==
    \E hdr \in hdrs, uuid \in uuids :
        /\ Rejected([op |-> "noroute", header |-> hdr], hdr, uuid,
                    ErrorHandler(<<[requestID |-> RequestID(hdr, uuid)]>>,
                                 FiberError(404, "Cannot GET /nowhere")))
        /\ UNCHANGED <<now, calc, edge, pp, concurrent>>

\* the second half of SpecPage's list request, within one day
HandleListUsersCount == ListRequestCount({ErrBadConn}, {now})

(***************************************************************************)
(* SpecPage: a list request against a table that already holds N rows,     *)
(* 0 <= N <= MaxTotal, whose ids have gaps (every odd id has been deleted).*)
(* Between its two Store calls another client's delete of the first row    *)
(* can be served.                                                          *)
(***************************************************************************)
SeedName(i) == IF i % 2 = 0 THEN "Al" ELSE "Bo"
SeedDob(i) == MkDate(AgeMinYear, 1 + (i % 12), 1 + (i % 28))

SeedTable(n) == [id \in {2 * i : i \in 1..n} |->
                    Row(id, SeedName(id \div 2), SeedDob(id \div 2),
                        StartDate, StartDate)]

InitPage ==
    /\ now = StartDate
    /\ calc = <<>>
    /\ edge = <<>>
    /\ pp = <<>>
    /\ \E n \in 0..MaxTotal :
          /\ rows = SeedTable(n)
          /\ nextId = 2 * n + 1
          /\ issued = 1..(2 * n)
          /\ gone = {2 * i - 1 : i \in 1..n}
    /\ req = <<>>
    /\ ctx = <<>>
    /\ calls = <<>>
    /\ svc = <<>>
    /\ resp = <<>>
    /\ sub = NoRows
    /\ put = NoRows
    /\ inflight = <<>>
    /\ log = <<>>

\* the responses to a list request do not depend on the requests before it
\* (it changes no state a later one reads), so one request per behaviour
\* reaches every response
FirstListRequest ==
    /\ req = <<>> /\ inflight = <<>>
    /\ ListRequest(QueryValues(PageInputs), QueryValues(SizeInputs), {""},
                   {"uuid-1"}, {ErrBadConn})

\* DELETE /api/v1/users/2 of another client, served while the list request
\* is between repo.List and repo.Count
DeleteBetween ==
    /\ req = <<>> /\ inflight # <<>>
    /\ DeleteRequest({PathId(2)}, {""}, {"uuid-2"}, {})

NextPage == FirstListRequest \/ DeleteBetween \/ HandleListUsersCount

SpecPage == InitPage /\ [][NextPage]_vars

(***************************************************************************)
(* The requests of Spec: few of each kind, its behaviours being long.       *)
(***************************************************************************)
DobLeapDay  == <<"2", "0", "0", "0", "-", "0", "2", "-", "2", "9">>
DobMarch1   == <<"2", "0", "0", "1", "-", "0", "3", "-", "0", "1">>
DobDayFirst == <<"1", "0", "-", "0", "5", "-", "1", "9", "9", "0">>
DobNoSuchDay == <<"2", "0", "0", "1", "-", "0", "2", "-", "2", "9">>

\* the request bodies Spec feeds in: two valid ones and a name that is too
\* short
BodyInputs == {Body("Al", DobLeapDay), Body("Bo", DobMarch1), Body("A", DobLeapDay)}

IdInputs == {PathId(v) : v \in 1..MaxId}

\* Spec serves the requests that make one Store call each: the order of their
\* statements is the order they are served in.  (A list request makes two;
\* it is served in SpecPage, SpecHttp and SpecConcurrent, and changes nothing
\* the requests of Spec read.)  The writes can fail in the Store, the reads
\* are answered.
HandleCreateUser == CreateRequest(BodyInputs, {""}, {"uuid-1"}, {ErrBadConn})

HandleGetUser == GetRequest(IdInputs, {""}, {"uuid-1"}, {})

HandleUpdateUser == UpdateRequest(IdInputs, BodyInputs, {""}, {"uuid-1"}, {ErrBadConn})

HandleDeleteUser == DeleteRequest(IdInputs, {""}, {"uuid-1"}, {ErrBadConn})

\* midnight passes: time.Now() is on the next day
EndDate == AddDate(StartDate, 0, MaxTicks)

Tick ==
    /\ now # EndDate
    /\ now' = NextDay(now)
    /\ UNCHANGED <<calc, edge, pp, svcVars>>

(***************************************************************************)
(* Spec: the service, started on StartDate with an empty table.            *)
(***************************************************************************)
Init ==
    /\ now = StartDate
    /\ calc = <<>>
    /\ edge = <<>>
    /\ pp = <<>>
    /\ ServiceIdle

Next ==
    \/ HandleCreateUser
    \/ HandleGetUser
    \/ HandleUpdateUser
    \/ HandleDeleteUser
    \/ Tick

Spec == Init /\ [][Next]_vars

(***************************************************************************)
(* SpecHttp: one request of any kind, with any of the inputs below, to the *)
(* service in a state some earlier requests left it in: of the ids 1..n    *)
(* handed out, n <= MaxId, some deleted.                                   *)
(***************************************************************************)
\* names of 100 and of 101 characters
Name100 == "xxxxxxxxxxxxxxxxxxxxxxxxxxxxxxxxxxxxxxxxxxxxxxxxxxxxxxxxxxxxxxxxxxxxxxxxxxxxxxxxxxxxxxxxxxxxxxxxxxxx"
Name101 == "xxxxxxxxxxxxxxxxxxxxxxxxxxxxxxxxxxxxxxxxxxxxxxxxxxxxxxxxxxxxxxxxxxxxxxxxxxxxxxxxxxxxxxxxxxxxxxxxxxxxx"

\* valid bodies, names that are too short, missing or too long, a dob in
\* another layout, one that names no day, none, and a body that is not JSON
HttpBodies ==
    {Body("Al", DobLeapDay), Body("Bo", DobMarch1), Body(Name100, DobMarch1),
     Body("A", DobLeapDay), Body("", DobLeapDay), Body(Name101, DobMarch1),
     Body("Al", DobDayFirst), Body("Al", DobNoSuchDay), Body("Al", <<>>),
     Malformed}

HttpIds == {BadPathId} \cup {PathId(v) : v \in (-1)..(MaxId + 1)}

\* the last page is one whose offset, at page size 64, is 2^31: int32 makes it
\* negative and PostgreSQL refuses the query
HttpPages == {QAbsent, QBad, QInt(-1), QInt(0), QInt(1), QInt(2),
              QInt((WrapPage - 1) \div 2 + 1)}
HttpSizes == {QAbsent, QInt(1), QInt(64), QInt(101)}

\* the seeded rows' birthdays: odd numbers of days after StartDate, a year back
HttpDob(id) == AddDate(StartDate, -1, 2 * id - 1)

SeedRows(ids) == [id \in ids |-> Row(id, SeedName(id), HttpDob(id), StartDate, StartDate)]

InitHttp ==
    /\ now \in {StartDate, EndDate}
    /\ calc = <<>>
    /\ edge = <<>>
    /\ pp = <<>>
    /\ \E n \in 0..MaxId : \E dead \in SUBSET (1..n) :
          /\ rows = SeedRows((1..n) \ dead)
          /\ nextId = n + 1
          /\ issued = 1..n
          /\ gone = dead
    /\ sub = NoRows
    /\ put = NoRows
    /\ req = <<>>
    /\ ctx = <<>>
    /\ calls = <<>>
    /\ svc = <<>>
    /\ resp = <<>>
    /\ inflight = <<>>
    /\ log = <<>>

\* the answer to a request depends on the table and the clock it finds, not
\* on the requests before it, so one request per behaviour reaches every
\* answer; a list request finds the table twice, so one write of another
\* client is served between its two Store calls
Fresh == req = <<>> /\ inflight = <<>>

HttpCreateUser ==
    Fresh /\ CreateRequest(HttpBodies, HeaderInputs, UuidInputs,
                           StoreErrors \cup {DeadlineAfterCommit})

HttpGetUser ==
    Fresh /\ GetRequest(HttpIds, HeaderInputs, UuidInputs, StoreErrors)

HttpListUsers ==
    Fresh /\ ListRequest(HttpPages, HttpSizes, HeaderInputs, UuidInputs, StoreErrors)

\* while the list request is in flight another client's write is served: a
\* create, an update or a delete
HttpWriteBetween ==
    /\ req = <<>> /\ inflight # <<>>
    /\ \/ CreateRequest({Body("Al", DobLeapDay)}, {""}, {"uuid-2"}, {})
       \/ UpdateRequest({PathId(1)}, {Body("Bo", DobMarch1)}, {""}, {"uuid-2"}, {})
       \/ DeleteRequest({PathId(v) : v \in 1..MaxId}, {""}, {"uuid-2"}, {})

\* the list request's second half; midnight can pass while the ages are
\* computed
HttpListUsersCount ==
    ListRequestCount(StoreErrors, IF now = EndDate THEN {now} ELSE {now, NextDay(now)})

HttpUpdateUser ==
    Fresh /\ UpdateRequest(HttpIds, HttpBodies, HeaderInputs, UuidInputs,
                           StoreErrors \cup {DeadlineAfterCommit})

HttpDeleteUser ==
    Fresh /\ DeleteRequest(HttpIds, HeaderInputs, UuidInputs,
                           StoreErrors \cup {DeadlineAfterCommit})

HttpHealth == Fresh /\ HealthRequest(HeaderInputs, UuidInputs)

HttpNoRoute == Fresh /\ NoRouteRequest(HeaderInputs, UuidInputs)

NextHttp ==
    \/ HttpCreateUser
    \/ HttpGetUser
    \/ HttpListUsers
    \/ HttpWriteBetween
    \/ HttpListUsersCount
    \/ HttpUpdateUser
    \/ HttpDeleteUser
    \/ HttpHealth
    \/ HttpNoRoute

SpecHttp == InitHttp /\ [][NextHttp]_vars

(***************************************************************************)
(* SpecConcurrent: MaxClients requests served at the same time (fiber runs *)
(* each request's handler in its own goroutine; all share one *sql.DB and  *)
(* no lock or transaction), against a table of MaxId rows.  The steps that *)
(* touch shared state are the statements sent to the database, each        *)
(* executed there as one atomic step, and the response; what a handler does*)
(* before its first statement (parsing, validation) is its own and is taken*)
(* together with that statement.                                           *)
(***************************************************************************)
MaxClients == 2
Clients == 1..MaxClients

\* a client's request: not yet sent ("idle"), between ListUsers' two Store
\* calls ("count", holding List's answer), back from the service ("respond",
\* holding what it returned), or answered ("done", holding the response)
Idle == [pc |-> "idle", request |-> <<>>, held |-> <<>>, result |-> <<>>,
         answer |-> <<>>]

\* one entry of the schedule: who did what, and the rows the table then had
Step(c, op, table) == [client |-> c, op |-> op, n |-> CountRows(table)]

\* what of a service method's return the handler looks at
Kept(result) == [calls |-> result.calls, val |-> result.val, err |-> result.err]

ConcurrentBodies == {Body("Al", DobLeapDay), Body("Bo", DobMarch1)}
ConcurrentLists == {<<QAbsent, QAbsent>>, <<QInt(2), QInt(1)>>}
\* the id the concurrent updates and deletes are about
SharedId == 1

\* the request of client c goes on to the position pc
Proceed(c, pc, request, held, result) ==
    inflight' = [inflight EXCEPT
                    ![c] = [pc |-> pc, request |-> <<request>>, held |-> held,
                            result |-> result, answer |-> <<>>]]

\* PUT /users/{id}: UpdateUser's one Store call, the UPDATE statement
UpdateStatement(c) ==
    /\ inflight[c].pc = "idle"
    /\ \E body \in ConcurrentBodies :
          LET request == [op |-> "update", header |-> "", id |-> PathId(SharedId),
                          parses |-> body.parses, name |-> body.name,
                          dob |-> body.dob]
              result  == ServiceUpdateUser(rows, SharedId, body.name, body.dob,
                                           now, "")
          IN  /\ ValidName(body.name) /\ ValidDob(body.dob)
              /\ rows' = result.table
              /\ Proceed(c, "respond", request, <<>>, <<Kept(result)>>)
              /\ log' = Append(log, Step(c, "Update", result.table))
              /\ IF result.err = ""
                 THEN /\ sub' = Remove(sub, SharedId)
                      /\ put' = Insert(Remove(put, SharedId),
                                       [id |-> SharedId, name |-> body.name,
                                        dob |-> body.dob])
                 ELSE UNCHANGED <<sub, put>>
    /\ UNCHANGED <<now, calc, edge, pp, exchange, nextId, issued, gone>>

\* POST /users: CreateUser's one Store call, the INSERT statement
CreateStatement(c) ==
    /\ inflight[c].pc = "idle"
    /\ \E body \in {Body("Al", DobLeapDay)} :
          LET request == [op |-> "create", header |-> "", parses |-> body.parses,
                          name |-> body.name, dob |-> body.dob]
              result  == ServiceCreateUser(rows, nextId, body.name, body.dob,
                                           now, "")
          IN  /\ ValidName(body.name) /\ ValidDob(body.dob)
              /\ rows' = result.table
              /\ nextId' = result.seq
              /\ Proceed(c, "respond", request, <<>>, <<Kept(result)>>)
              /\ log' = Append(log, Step(c, "Create", result.table))
              /\ IF result.err = ""
                 THEN /\ sub' = Insert(sub, [id |-> nextId, name |-> body.name,
                                             dob |-> body.dob, at |-> now])
                      /\ issued' = issued \cup {nextId}
                 ELSE UNCHANGED <<sub, issued>>
    /\ UNCHANGED <<now, calc, edge, pp, exchange, put, gone>>

\* DELETE /users/{id}: DeleteUser's one Store call, the DELETE statement
DeleteStatement(c) ==
    /\ inflight[c].pc = "idle"
    /\ LET request == [op |-> "delete", header |-> "", id |-> PathId(SharedId)]
           result  == ServiceDeleteUser(rows, SharedId, "")
       IN  /\ rows' = result.table
           /\ Proceed(c, "respond", request, <<>>, <<Kept(result)>>)
           /\ log' = Append(log, Step(c, "Delete", result.table))
           /\ IF result.err = ""
              THEN /\ sub' = Remove(sub, SharedId)
                   /\ put' = Remove(put, SharedId)
                   /\ gone' = gone \cup {SharedId}
              ELSE UNCHANGED <<sub, put, gone>>
    /\ UNCHANGED <<now, calc, edge, pp, exchange, nextId, issued>>

\* GET /users: ListUsers' first Store call, the SELECT of the page; when it
\* fails ListUsers returns without the second
ListStatement(c) ==
    /\ inflight[c].pc = "idle"
    /\ \E q \in ConcurrentLists :
          LET request == [op |-> "list", header |-> "",
                          page |-> q[1], page_size |-> q[2]]
              params  == QueryParser(q[1], q[2])
              p       == SetDefaults(params)
              l       == List(rows, nextId - 1, GetLimit(p), GetOffset(p), "")
          IN  /\ ValidParams(params)
              /\ IF l.err # ""
                 THEN Proceed(c, "respond", request, <<>>,
                              <<ListUsersReturn(params, l, Count(rows, ""), <<>>)>>)
                 ELSE Proceed(c, "count", request, <<l>>, <<>>)
              /\ log' = Append(log, Step(c, "List", rows))
    /\ UNCHANGED <<now, calc, edge, pp, exchange, store>>

\* ListUsers' second Store call, the SELECT COUNT(*), and then its return
CountStatement(c) ==
    /\ inflight[c].pc = "count"
    /\ LET request == inflight[c].request[1]
           params  == QueryParser(request.page, request.page_size)
           l       == inflight[c].held[1]
           result  == ListUsersReturn(params, l, Count(rows, ""),
                                      [k \in 1..Len(l.users) |-> now])
       IN  Proceed(c, "respond", request, <<>>, <<result>>)
    /\ log' = Append(log, Step(c, "Count", rows))
    /\ UNCHANGED <<now, calc, edge, pp, exchange, store>>

\* the handler's answer to what the service returned
Reply(op, result) ==
    IF op = "create" THEN CreateUserReply(result)
    ELSE IF op = "update" THEN UpdateUserReply(result)
    ELSE IF op = "delete" THEN DeleteUserReply(result)
    ELSE ListUsersReply(result)

\* the handler of client c's request writes its response
Respond(c) ==
    /\ inflight[c].pc = "respond"
    /\ LET request == inflight[c].request[1]
           result  == inflight[c].result[1]
       IN  /\ Exchange(request, "", "uuid-1", result.calls, Returned(result),
                       Reply(request.op, result))
           /\ inflight' = [inflight EXCEPT ![c].pc = "done", ![c].answer = resp']
    /\ log' = Append(log, Step(c, "Respond", rows))
    /\ UNCHANGED <<now, calc, edge, pp, store>>

ConcurrentUpdate == \E c \in Clients : UpdateStatement(c)
ConcurrentCreate == \E c \in Clients : CreateStatement(c)
ConcurrentDelete == \E c \in Clients : DeleteStatement(c)
ConcurrentList == \E c \in Clients : ListStatement(c)
ConcurrentCount == \E c \in Clients : CountStatement(c)
ConcurrentRespond == \E c \in Clients : Respond(c)

\* the day after the rows were written, nothing sent yet
InitConcurrent ==
    /\ now = EndDate
    /\ calc = <<>>
    /\ edge = <<>>
    /\ pp = <<>>
    /\ rows = SeedRows(1..MaxId)
    /\ nextId = MaxId + 1
    /\ issued = 1..MaxId
    /\ gone = {}
    /\ sub = NoRows
    /\ put = NoRows
    /\ req = <<>>
    /\ ctx = <<>>
    /\ calls = <<>>
    /\ svc = <<>>
    /\ resp = <<>>
    /\ inflight = [c \in Clients |-> Idle]
    /\ log = <<>>

NextConcurrent ==
    \/ ConcurrentUpdate
    \/ ConcurrentCreate
    \/ ConcurrentDelete
    \/ ConcurrentList
    \/ ConcurrentCount
    \/ ConcurrentRespond

SpecConcurrent == InitConcurrent /\ [][NextConcurrent]_vars

(***************************************************************************)
(* Claims about the age computation.                                       *)
(***************************************************************************)
\* d is not after r, as calendar dates
DateLE(d, r) == DayNum(d.year, d.month, d.day) <= DayNum(r.year, r.month, r.day)

\* (month, day) of a is lexicographically smaller than (month, day) of b
MonthDayLess(a, b) == a.month * 32 + a.day < b.month * 32 + b.day
SameMonthDay(a, b) == a.month = b.month /\ a.day = b.day

Bit(b) == IF b THEN 1 ELSE 0

\* C1: every computed age equals the year difference, less one exactly when
\* (now.month, now.day) is lexicographically smaller than (dob.month, dob.day);
\* on the birthday's month and day there is no decrement.
C1_AgeIsYearDiffLessLexDecrement ==
    \A i \in 1..Len(calc) :
        /\ calc[i].age =
              (now.year - calc[i].dob.year) - Bit(MonthDayLess(now, calc[i].dob))
        /\ SameMonthDay(now, calc[i].dob) => calc[i].age = now.year - calc[i].dob.year

C1_Witness ==
    /\ Len(calc) = 1
    /\ SameMonthDay(now, calc[1].dob)
    /\ now.year > calc[1].dob.year
    /\ calc[1].age = now.year - calc[1].dob.year

\* C2 as stated: for a date of birth not after the current date, the age equals
\* the age of the day before if and only if the current date does not have the
\* birthday's month and day.
C2_Original ==
    \A i \in 1..Len(calc) :
        DateLE(calc[i].dob, now) =>
            ((calc[i].age = CalculateAgeAt(calc[i].dob, PrevDay(now)))
                <=> ~SameMonthDay(now, calc[i].dob))

\* the day of the current year on which the age changes: the birthday's month
\* and day, or Mar 1 of a non-leap year for a date of birth on Feb 29
IsAgeChangeDay(dob, ref) ==
    \/ SameMonthDay(ref, dob)
    \/ /\ dob.month = 2 /\ dob.day = 29
       /\ ref.month = 3 /\ ref.day = 1
       /\ ~IsLeap(ref.year)

\* C2 amended: the age differs from the age of the day before exactly on the
\* birthday's month and day, or, for a date of birth on Feb 29, on Mar 1 of a
\* non-leap year.
C2_AgeChangesOnBirthdayOrMar1 ==
    \A i \in 1..Len(calc) :
        DateLE(calc[i].dob, now) =>
            ((calc[i].age = CalculateAgeAt(calc[i].dob, PrevDay(now)))
                <=> ~IsAgeChangeDay(calc[i].dob, now))

C2_Witness ==
    /\ Len(calc) = 1
    /\ calc[1].dob.month = 2 /\ calc[1].dob.day = 29
    /\ now.month = 3 /\ now.day = 1 /\ ~IsLeap(now.year)
    /\ calc[1].age = 1
    /\ CalculateAgeAt(calc[1].dob, PrevDay(now)) = 0

\* C3: the three ages TestCalculateAgeEdgeCases computes are EdgeYears for the
\* current date shifted back EdgeYears years, EdgeYears - 1 for that date plus
\* one day, and EdgeYears for that date minus one day.
C3_EdgeCasesAsTested ==
    /\ Len(edge) >= 1 => edge[1].age = EdgeYears
    /\ Len(edge) >= 2 => edge[2].age = EdgeYears - 1
    /\ Len(edge) >= 3 => edge[3].age = EdgeYears

\* C4: for a date of birth not after the current date the age is >= 0, and it
\* is 0 when the date of birth is the current date.
C4_AgeNonNegative ==
    \A i \in 1..Len(calc) :
        DateLE(calc[i].dob, now) =>
            /\ calc[i].age >= 0
            /\ calc[i].dob = now => calc[i].age = 0

C4_Witness ==
    /\ Len(calc) = 1
    /\ calc[1].dob = now
    /\ calc[1].age = 0

(***************************************************************************)
(* Claims about the pagination policy.                                     *)
(***************************************************************************)
\* C7: SetDefaults maps page 0 to 1 and page_size 0 to 10, leaves every
\* non-zero page and page_size unchanged, treats each field independently of
\* the other, and applied twice gives the result of applying it once.
C7_SetDefaults ==
    \A i \in 2..Len(pp) :
        /\ pp[i].Page = (IF pp[1].Page = 0 THEN 1 ELSE pp[1].Page)
        /\ pp[i].PageSize = (IF pp[1].PageSize = 0 THEN 10 ELSE pp[1].PageSize)

C7_Witness ==
    /\ Len(pp) = 3
    /\ pp[1].Page = 0 /\ pp[1].PageSize = 64
    /\ pp[2] = [Page |-> 1, PageSize |-> 64]
    /\ pp[3] = pp[2]

\* the last request is a list request
IsList == req # <<>> /\ req[1].op = "list"

\* a query value that names a number outside lo..hi, or no number at all
OutOfRange(q, lo, hi) ==
    \/ q.kind = "bad"
    \/ q.kind = "int" /\ (q.val < lo \/ q.val > hi)

\* C5: a list request whose page is < 1 or whose page_size is outside 1..100
\* (an explicit 0, a negative value, a value that is no integer) is answered with
\* 400 and makes no Store call.
C5_BadPagingRejected ==
    (IsList /\ (OutOfRange(req[1].page, 1, WrapPage + 1)
                  \/ OutOfRange(req[1].page_size, 1, 100)))
        => (resp[1].status = 400 /\ calls = <<>>)

\* the last request is a list request that names a page >= 1 and a page_size
\* in 1..100
IsListInRange ==
    /\ IsList
    /\ req[1].page.kind = "int" /\ req[1].page.val >= 1
    /\ req[1].page_size.kind = "int"
    /\ req[1].page_size.val >= 1 /\ req[1].page_size.val <= 100

\* C6: for page >= 1 and page_size in 1..100 the Store's List is called with
\* limit = page_size and offset = (page - 1) * page_size (stated through the
\* quotient and remainder of the offset, which no product overflows).
C6_OffsetIsProduct ==
    IsListInRange =>
        /\ Len(calls) >= 1
        /\ calls[1].op = "List"
        /\ calls[1].args[1] = req[1].page_size.val
        /\ calls[1].args[2] >= 0
        /\ calls[1].args[2] % req[1].page_size.val = 0
        /\ calls[1].args[2] \div req[1].page_size.val = req[1].page.val - 1

\* C8: the total_pages of every list response is the least k with
\* k * page_size >= total, where total is the table's row count and page_size,
\* the normalized one, is in 1..100 (never zero).
C8_TotalPagesIsCeiling ==
    (IsList /\ resp[1].status = 200) =>
        LET b == resp[1].body
        IN  /\ b.total = CountRows(rows)
            /\ b.page_size >= 1 /\ b.page_size <= 100
            /\ b.total_pages >= 0
            /\ b.total_pages * b.page_size >= b.total
            /\ b.total_pages > 0 => (b.total_pages - 1) * b.page_size < b.total

C8_Witness ==
    /\ IsList /\ resp[1].status = 200
    /\ resp[1].body.total = 101
    /\ resp[1].body.page_size = 10
    /\ resp[1].body.total_pages = 11

\* the page and page_size a list request stands for: the value it names, or the
\* default when it names none or names 0
NormalPage(q) == IF q.kind = "int" /\ q.val # 0 THEN q.val ELSE 1
NormalSize(q) == IF q.kind = "int" /\ q.val # 0 THEN q.val ELSE 10

\* the number of rows whose id is smaller than id
RankBelow(id) == Cardinality({i \in DOMAIN rows : i < id})

\* C9: a valid list request none of whose Store calls fails, no other
\* request being served between them, is answered with 200 and the users
\* ranked (p-1)*s+1 .. min(p*s, N) in ascending id order (none when the
\* offset is >= N), total = N, the normalized page and page_size, and
\* total_pages = ceil(N/s).
C9_ListReturnsThePage ==
    [][ (/\ req = <<>> /\ req' # <<>>
         /\ req'[1].op = "list"
         /\ ValidParams(QueryParser(req'[1].page, req'[1].page_size))
         /\ \A k \in 1..Len(calls') : calls'[k].err = "") =>
            LET p == NormalPage(req'[1].page)
                s == NormalSize(req'[1].page_size)
                N == CountRows(rows)
                \* the offset (p-1)*s when it is below N, else N
                off == IF p - 1 > N \div s THEN N ELSE MinInt(N, (p - 1) * s)
                b == resp'[1].body
            IN  /\ resp'[1].status = 200
                /\ Len(b.users) = MinInt(s, N - off)
                /\ \A k \in 1..Len(b.users) :
                      /\ b.users[k].id \in DOMAIN rows
                      /\ RankBelow(b.users[k].id) = off + k - 1
                      /\ b.users[k].name = rows[b.users[k].id].name
                      /\ b.users[k].dob = FormatDate(rows[b.users[k].id].dob)
                /\ b.total = N
                /\ b.page = p /\ b.page_size = s
                /\ b.total_pages * s >= N /\ (b.total_pages - 1) * s < N ]_vars

(***************************************************************************)
(* Claims about the user CRUD path.                                        *)
(***************************************************************************)
\* the last request is a get_user that was answered with 200
IsGetOk == req # <<>> /\ req[1].op = "get" /\ resp[1].status = 200

\* C10: get_user on an id that create_user returned, with no update or delete
\* of that id in between, returns that id, the submitted name and the submitted
\* YYYY-MM-DD dob text, and an age, which is >= 0 when the submitted date of
\* birth was not after the date of the create.
C10_CreateGetRoundTrip ==
    (IsGetOk /\ req[1].id.val \in DOMAIN sub) =>
        LET sent == sub[req[1].id.val]
            b    == resp[1].body
        IN  /\ b.id = sent.id
            /\ b.name = sent.name
            /\ b.dob = sent.dob
            /\ Len(b.age) = 1
            /\ DateLE(ParseDate(sent.dob), sent.at) => b.age[1] >= 0

C10_Witness ==
    /\ IsGetOk
    /\ req[1].id.val \in DOMAIN sub
    /\ sub[req[1].id.val].dob = DobLeapDay
    /\ sub[req[1].id.val].at = StartDate
    /\ now = NextDay(StartDate)
    /\ resp[1].body = [id |-> req[1].id.val, name |-> "Al",
                       dob |-> DobLeapDay, age |-> <<1>>]

(***************************************************************************)
(* Claims about deleting, updating and the ids.                            *)
(***************************************************************************)
\* the step is a request (not the clock's) that reached the Store with the
\* path id and found it working: none of its calls was struck by a failure
ReachedStore(op) ==
    /\ now' = now
    /\ req'[1].op = op
    /\ req'[1].id.kind = "int"
    /\ calls' # <<>>
    /\ \A k \in 1..Len(calls') : calls'[k].err \notin StoreErrors

\* C11: delete_user of an id that has no row, never created or already
\* deleted, is answered 404 every time it is repeated, never 2xx or 500, and
\* changes no row; once delete_user(id) has succeeded the id never has a row
\* again, and get_user, update_user and delete_user of it are answered 404
\* (the Store answering each of these requests).
C11_DeleteIsIdempotentAndFinal ==
    [][ /\ gone' \cap DOMAIN rows' = {}
        /\ (ReachedStore("delete") /\ req'[1].id.val \notin DOMAIN rows)
              => (resp'[1].status = 404 /\ rows' = rows)
        /\ \A op \in {"get", "update", "delete"} :
              (ReachedStore(op) /\ req'[1].id.val \in gone)
                 => (resp'[1].status = 404 /\ rows' = rows) ]_vars

\* a second delete of an id a first delete removed
C11_Witness ==
    /\ req # <<>> /\ req[1].op = "delete"
    /\ req[1].id = PathId(1)
    /\ 1 \in gone
    /\ calls # <<>> /\ calls[1].err = ErrNoRows
    /\ resp[1].status = 404


\* C12: a successful update_user(id, name, dob) sets the name and the dob of
\* the row with that id to the ones sent and its updated_at to the current
\* time, which is not before the old one, keeps its id and created_at, and
\* leaves every other row and the set of rows as they were; a get_user(id)
\* answered while that update is the last write to the id returns the name
\* and the dob text the update was sent.
C12_UpdateWritesOneRow ==
    [][ /\ (ReachedStore("update") /\ resp'[1].status = 200) =>
              LET id  == req'[1].id.val
                  old == rows[id]
                  new == rows'[id]
              IN  /\ id \in DOMAIN rows
                  /\ DOMAIN rows' = DOMAIN rows
                  /\ new.id = id
                  /\ new.name = req'[1].name
                  /\ FormatDate(new.dob) = req'[1].dob
                  /\ new.created_at = old.created_at
                  /\ new.updated_at = now
                  /\ DateLE(old.updated_at, new.updated_at)
                  /\ \A j \in DOMAIN rows \ {id} : rows'[j] = rows[j]
        /\ (ReachedStore("get") /\ resp'[1].status = 200
              /\ req'[1].id.val \in DOMAIN put) =>
              LET sent == put[req'[1].id.val]
              IN  /\ resp'[1].body.id = sent.id
                  /\ resp'[1].body.name = sent.name
                  /\ resp'[1].body.dob = sent.dob ]_vars

\* id 1 was created on StartDate as Al and updated the day after to Bo, id 2
\* is as it was created, and a get of id 1 shows the update
C12_Witness ==
    /\ req # <<>> /\ req[1].op = "get" /\ req[1].id = PathId(1)
    /\ resp[1].status = 200
    /\ 1 \in DOMAIN put /\ 2 \in DOMAIN sub
    /\ rows[1].created_at = StartDate
    /\ rows[1].updated_at = NextDay(StartDate)
    /\ resp[1].body.name = "Bo"
    /\ resp[1].body.dob = DobMarch1
    /\ sub[2].name = "Al"


\* C20: the rows' ids are distinct positive integers (each row is the one
\* row of its id, and the id is at least 1), a row keeps its id as long as it
\* exists, and the id create_user gives a new row is one no row has had
\* before, deleted or not; the response to the create carries that id.
C20_IdsUniquePositiveNeverReused ==
    [][ /\ \A i \in DOMAIN rows' : rows'[i].id = i /\ i >= 1
        /\ \A i \in DOMAIN rows \cap DOMAIN rows' : rows'[i].id = rows[i].id
        /\ \A i \in DOMAIN rows' \ DOMAIN rows :
              /\ i \notin issued
              /\ i \in issued'
              /\ req'[1].op = "create"
              /\ resp'[1].status = 201
              /\ resp'[1].body.id = i
        /\ gone' \subseteq issued' /\ issued \subseteq issued' ]_vars

\* a create after id 1 was handed out and its row deleted: the new row is id 2
C20_Witness ==
    /\ req # <<>> /\ req[1].op = "create"
    /\ resp[1].status = 201
    /\ resp[1].body.id = 2
    /\ gone = {1}
    /\ DOMAIN rows = {2}
    /\ issued = {1, 2}


(***************************************************************************)
(* Claims about the responses.                                             *)
(***************************************************************************)
IsOp(op) == req # <<>> /\ req[1].op = op

\* the step answers the list request in flight with a 200 whose k-th user has
\* the id of the k-th row read and the age CalculateAge gives for that row's
\* date of birth, on the date before the step up to some user and on the
\* date after it from that user on
AgesOfRowsRead ==
    LET read  == inflight[1].l.users
        users == resp'[1].body.users
    IN  /\ Len(users) = Len(read)
        /\ \E j \in 1..(Len(read) + 1) :
              \A k \in 1..Len(read) :
                  /\ users[k].id = read[k].id
                  /\ users[k].age =
                        <<CalculateAgeAt(read[k].dob, IF k < j THEN now ELSE now')>>

\* C13: the body of a 201 to create_user and of a 200 to update_user has no
\* age; the body of a 200 to get_user has an age, the one CalculateAge gives
\* for the stored date of birth of the row with that id on the current
\* date; the rows a list request reads are the stored rows of their ids, and
\* every user of its 200 has an age, the one CalculateAge gives for the date
\* of birth read, on the date of the clock when it is computed.
C13_AgeOnReadsOnly ==
    [][ /\ (inflight = <<>> /\ inflight' # <<>>) =>
              \A k \in 1..Len(inflight'[1].l.users) :
                  LET u == inflight'[1].l.users[k]
                  IN  u.id \in DOMAIN rows /\ rows[u.id] = u
        /\ req' # <<>> =>
              LET op     == req'[1].op
                  status == resp'[1].status
              IN  /\ (op = "create" /\ status = 201) => resp'[1].body.age = <<>>
                  /\ (op = "update" /\ status = 200) => resp'[1].body.age = <<>>
                  /\ (op = "get" /\ status = 200) =>
                        /\ now' = now
                        /\ resp'[1].body.age =
                              <<CalculateAgeAt(rows[resp'[1].body.id].dob, now)>>
                  /\ (op = "list" /\ status = 200) =>
                        inflight # <<>> /\ AgesOfRowsRead ]_vars

\* a list of two users answered on the day the first of them turns 1, with
\* ages 1 and 0, after the row of the first was deleted
C13_Witness ==
    /\ IsOp("list") /\ resp[1].status = 200
    /\ Len(resp[1].body.users) = 2
    /\ now = EndDate
    /\ resp[1].body.users[1].age = <<1>>
    /\ resp[1].body.users[2].age = <<0>>
    /\ resp[1].body.users[1].id \notin DOMAIN rows


Endpoints == {"create", "get", "list", "update", "delete"}

SuccessStatus(op) == IF op = "create" THEN 201 ELSE IF op = "delete" THEN 204 ELSE 200

\* C14: on every endpoint the status follows from what the service returned:
\* InvalidDate gives 400 (as does every request whose dob text is no date,
\* which the handler's validation answers before the service sees it),
\* NotFound 404, no error 201 for create, 204 for delete and 200 for get,
\* list and update, and any other error gives 500.
\* That other error is the error of the Store call that failed, handed on as
\* it is; the failed call is the last call of the request and no call is made
\* twice (no retry), and the 500 has an error message for a body, with none
\* of the fields of a success (no users, no total, no id).
C14_StatusFollowsOutcome ==
    /\ (req # <<>> /\ req[1].op \in {"create", "update"} /\ ~ParseOk(req[1].dob))
          => resp[1].status = 400
    /\ (req # <<>> /\ req[1].op \in Endpoints /\ svc # <<>>) =>
        LET err    == svc[1].err
            status == resp[1].status
            n      == Len(calls)
        IN  /\ err = "" => status = SuccessStatus(req[1].op)
            /\ err = ErrInvalidDate => status = 400
            /\ err = ErrUserNotFound => status = 404
            /\ err \notin {"", ErrInvalidDate, ErrUserNotFound} =>
                  /\ status = 500
                  /\ n >= 1 /\ calls[n].err = err
                  /\ \A k \in 1..(n - 1) : calls[k].err = ""
                  /\ \A j, k \in 1..n : calls[j].op = calls[k].op => j = k
                  /\ svc[1].val = <<>>
                  /\ DOMAIN resp[1].body = {"error"}
            /\ (\E k \in 1..n : calls[k].err \notin {"", ErrNoRows}) =>
                  status = 500

\* a list request whose page was read and whose count then failed: 500
C14_Witness ==
    /\ IsOp("list")
    /\ Len(calls) = 2
    /\ calls[1].op = "List" /\ calls[1].err = "" /\ Len(calls[1].ret) = 2
    /\ calls[2].op = "Count" /\ calls[2].err = ErrDeadline
    /\ svc[1].err = ErrDeadline
    /\ resp[1].status = 500


\* C15: every response that is not 2xx has a body of exactly the two fields
\* error and request_id, and request_id is the request's correlation id.
C15_ErrorEnvelope ==
    (resp # <<>> /\ (resp[1].status < 200 \/ resp[1].status > 299)) =>
        /\ DOMAIN resp[1].body = {"error", "request_id"}
        /\ resp[1].body.request_id = ctx[1].requestID

\* C16: every response has a header X-Request-ID; it holds the request's
\* X-Request-ID when that is not empty, and otherwise an id generated for the
\* request; the correlation id kept for the log and the error bodies is the
\* same value.
C16_RequestIdHeader ==
    resp # <<>> =>
        /\ RequestIDHeader \in DOMAIN resp[1].headers
        /\ req[1].header # "" => resp[1].headers[RequestIDHeader] = req[1].header
        /\ req[1].header = "" => resp[1].headers[RequestIDHeader] \in UuidInputs
        /\ ctx[1].requestID = resp[1].headers[RequestIDHeader]


\* the request r is one the handlers must refuse: its path id is no 32-bit
\* integer, or the name of its body has fewer than 2 or more than 100
\* characters, or the dob of its body is missing or no date in YYYY-MM-DD form
MustRefuse(r) ==
    \/ r.op \in {"get", "update", "delete"} /\ r.id.kind = "bad"
    \/ r.op \in {"create", "update"}
         /\ (Len(r.name) < 2 \/ Len(r.name) > 100 \/ Len(r.dob) = 0 \/ ~ParseOk(r.dob))

\* C17: a create or update whose name is shorter than 2 or longer than 100
\* characters or whose dob is missing or not a date in YYYY-MM-DD form, and a
\* get, update or delete whose path id is not a 32-bit integer, is answered
\* 400 without a call of the service or of the Store, and leaves the rows and
\* the id sequence as they were.
C17_InvalidInputRefused ==
    [][ (req' # <<>> /\ MustRefuse(req'[1])) =>
            /\ resp'[1].status = 400
            /\ svc' = <<>>
            /\ calls' = <<>>
            /\ rows' = rows
            /\ nextId' = nextId ]_vars

\* an update of an existing row with a name of 101 characters
C17_Witness ==
    /\ IsOp("update")
    /\ req[1].id = PathId(1) /\ 1 \in DOMAIN rows
    /\ req[1].name = Name101 /\ req[1].dob = DobMarch1
    /\ resp[1].status = 400
    /\ calls = <<>>
    /\ rows[1].name = SeedName(1)


\* what a call of GetById, Update or Delete reported: a row (or, for Delete,
\* no error), no row, or a failure
Outcome(c) ==
    IF c.op = "Delete"
    THEN (IF c.err = "" THEN "success"
          ELSE IF c.err = ErrNoRows THEN "not-found" ELSE "failure")
    ELSE (IF c.err # "" THEN "failure"
          ELSE IF c.ret = <<>> THEN "not-found" ELSE "success")

\* C18: a get, update or delete that reaches the Store makes one call, which
\* reports a failure exactly when a failure struck it, and then the answer
\* is 500, never 404; otherwise it reports not-found exactly when the id has
\* no row, and then the answer is 404, never 500; otherwise it reports
\* success and the answer is 2xx.  For delete the not-found report is the
\* error sql.ErrNoRows, which the service tells from a failure by its text.
C18_AbsentIsNotFailure ==
    [][ \A op \in {"get", "update", "delete"} :
          (req' # <<>> /\ req'[1].op = op /\ calls' # <<>>) =>
              LET c      == calls'[1]
                  id     == req'[1].id.val
                  failed == c.err \in StoreErrors
                  absent == id \notin DOMAIN rows
                  status == resp'[1].status
              IN  /\ Len(calls') = 1
                  /\ failed => (Outcome(c) = "failure" /\ status = 500)
                  /\ (~failed /\ absent) => (Outcome(c) = "not-found" /\ status = 404)
                  /\ (~failed /\ ~absent) =>
                        (Outcome(c) = "success" /\ status \in {200, 204}) ]_vars

\* a delete of an id that has no row, the Store answering: 404 from ErrNoRows
C18_Witness ==
    /\ IsOp("delete")
    /\ req[1].id = PathId(MaxId + 1)
    /\ calls # <<>> /\ calls[1].err = ErrNoRows
    /\ svc[1].err = ErrUserNotFound
    /\ resp[1].status = 404

\* the message of the 500 of an endpoint
GenericMessage(op) ==
    IF op = "create" THEN "Failed to create user"
    ELSE IF op = "get" THEN "Failed to get user"
    ELSE IF op = "list" THEN "Failed to list users"
    ELSE IF op = "update" THEN "Failed to update user"
    ELSE "Failed to delete user"

\* C19: whichever error the Store failed with, the response to the request
\* is the same: status 500 and a body that holds the endpoint's fixed message
\* and nothing else, which is not the text of any driver or internal error.
C19_FailureTextNotEchoed ==
    (req # <<>> /\ req[1].op \in Endpoints
       /\ \E k \in 1..Len(calls) : calls[k].err \notin {"", ErrNoRows}) =>
        /\ resp[1].status = 500
        /\ resp[1].body = ErrorBody(GenericMessage(req[1].op))
        /\ resp[1].body.error \notin StoreErrors \cup {ErrPageQuery, ErrNoRows}

\* an update that failed with the second of the driver's errors
C19_Witness ==
    /\ IsOp("update")
    /\ calls # <<>> /\ calls[1].err = ErrDeadline
    /\ svc[1].err = ErrDeadline
    /\ resp[1].status = 500
    /\ resp[1].body = ErrorBody("Failed to update user")


(***************************************************************************)
(* Claims about the age over time.                                         *)
(***************************************************************************)
\* the first days of January and of March and the last days of December
IsMarkDate(d) == (d.day = 1 /\ d.month \in {1, 3}) \/ (d.month = 12 /\ d.day = 31)

NowMarks == {d \in NowDates : IsMarkDate(d)}
DobMarks == {d \in DobDates : IsMarkDate(d)}

\* a is not after b, by (year, month, day)
NotAfter(a, b) ==
    (a.year * 16 + a.month) * 32 + a.day <= (b.year * 16 + b.month) * 32 + b.day

\* C24: the age never decreases as the reference date advances: the age of
\* a date of birth on a date is at most its age on the next day (so, day by
\* day, at most its age on any later date), and at most its age on each later
\* 1 January, 1 March and 31 December; and it never increases with the date
\* of birth: it is at least the age of the next day's date of birth and of
\* each later such date of birth on the same reference date.
C24_AgeMonotone ==
    \A i \in 1..Len(calc) :
        LET d == calc[i].dob
            a == calc[i].age
        IN  /\ a = CalculateAgeAt(d, now)
            /\ a <= CalculateAgeAt(d, NextDay(now))
            /\ \A r \in NowMarks : NotAfter(now, r) => a <= CalculateAgeAt(d, r)
            /\ a >= CalculateAgeAt(NextDay(d), now)
            /\ \A e \in DobMarks : NotAfter(d, e) => a >= CalculateAgeAt(e, now)

\* a leap-day date of birth on 28 February of the next year: the age is 0,
\* and 1 on the day after
C24_Witness ==
    /\ Len(calc) = 1
    /\ calc[1].dob = MkDate(AgeMinYear, 2, 29)
    /\ now = MkDate(AgeMinYear + 1, 2, 28)
    /\ calc[1].age = 0
    /\ CalculateAgeAt(calc[1].dob, NextDay(now)) = 1




\* every age in the body of a 200 to get_user or to list_users
AgesReturned ==
    IF IsOp("get") /\ resp[1].status = 200
    THEN {resp[1].body.age[1]}
    ELSE IF IsOp("list") /\ resp[1].status = 200
         THEN {resp[1].body.users[k].age[1] : k \in 1..Len(resp[1].body.users)}
         ELSE {}

\* C25: after any sequence of create_user, update_user and delete_user
\* requests whose inputs pass validation, every age that get_user and
\* list_users return is at least zero.
C25_AgesNonNegative ==
    \A a \in AgesReturned : a >= 0




(* Claims about what a request leaves alone. *)

\* the ids whose row is not the same before and after the step: added,
\* removed or changed
Touched == {i \in DOMAIN rows \cup DOMAIN rows' :
               \/ i \notin DOMAIN rows
               \/ i \notin DOMAIN rows'
               \/ rows'[i] # rows[i]}

\* what a create, update or delete answered 201, 200 or 204 does to the rows:
\* a create adds one row and touches no other, an update touches no row but
\* the one of its id, which stays, a delete removes the row of its id and
\* touches no other
SuccessfulWrite ==
    LET op     == req'[1].op
        status == resp'[1].status
    IN  /\ (op = "create" /\ status = 201) =>
              /\ resp'[1].body.id \notin DOMAIN rows
              /\ Touched = {resp'[1].body.id}
              /\ DOMAIN rows' = DOMAIN rows \cup {resp'[1].body.id}
        /\ (op = "update" /\ status = 200) =>
              /\ Touched \subseteq {req'[1].id.val}
              /\ DOMAIN rows' = DOMAIN rows
              /\ req'[1].id.val \in DOMAIN rows
        /\ (op = "delete" /\ status = 204) =>
              /\ req'[1].id.val \in DOMAIN rows
              /\ Touched = {req'[1].id.val}
              /\ DOMAIN rows' = DOMAIN rows \ {req'[1].id.val}
        /\ status \in {200, 201, 204, 400, 404, 500}

\* C23 as first stated: a request answered with an error (400, 404 or 500)
\* leaves the stored rows as they were, and so do get_user, list_users, the
\* health check and a request no route matches whatever their answer; a 201
\* to create_user adds one row and touches no other, a 200 to update_user
\* touches no row but the one of its id, which stays, and a 204 to
\* delete_user removes the row of its id and touches no other.
C23_Original ==
    [][ IF req' = <<>> THEN rows' = rows ELSE
          /\ resp'[1].status >= 400 => rows' = rows
          /\ req'[1].op \in {"get", "list", "health", "noroute"} => rows' = rows
          /\ SuccessfulWrite ]_vars

\* the step is a create, update or delete answered 500 whose Store call
\* returned a context error, and the rows are as its statement leaves them
\* when it takes effect: the row the create was sent added under the next id
\* of the sequence, the row of the update's id holding the name and date of
\* birth sent, the row of the delete's id removed; no other row is touched
CommittedThenFailed ==
    LET r == req'[1]
    IN  /\ r.op \in {"create", "update", "delete"}
        /\ resp'[1].status = 500
        /\ Len(calls') = 1 /\ calls'[1].err = ErrDeadline
        /\ \/ /\ r.op = "create"
              /\ Touched = {nextId}
              /\ nextId \notin DOMAIN rows /\ nextId \in DOMAIN rows'
              /\ rows'[nextId].name = r.name
              /\ rows'[nextId].dob = ParseDate(r.dob)
              /\ nextId' = nextId + 1
           \/ /\ r.op = "update"
              /\ Touched \subseteq {r.id.val}
              /\ r.id.val \in DOMAIN rows /\ r.id.val \in DOMAIN rows'
              /\ rows'[r.id.val].name = r.name
              /\ rows'[r.id.val].dob = ParseDate(r.dob)
           \/ /\ r.op = "delete"
              /\ Touched \subseteq {r.id.val}
              /\ r.id.val \notin DOMAIN rows'

\* C23: a request answered 400 or 404 leaves the stored rows as they were,
\* and so do get_user, list_users, the health check and a request no route
\* matches whatever their answer; a create, update or delete answered 500
\* leaves them as they were too, unless its Store call returned a context
\* error after the statement was committed, and then the rows are as that
\* one statement leaves them; a 201 to create_user adds one row and touches
\* no other, a 200 to update_user touches no row but the one of its id,
\* which stays, and a 204 to delete_user removes the row of its id and
\* touches no other.
C23_OnlySuccessfulWritesChangeRows ==
    [][ IF req' = <<>> THEN rows' = rows ELSE
          /\ resp'[1].status \in {400, 404} => rows' = rows
          /\ resp'[1].status = 500 => (rows' = rows \/ CommittedThenFailed)
          /\ req'[1].op \in {"get", "list", "health", "noroute"} => rows' = rows
          /\ SuccessfulWrite ]_vars

\* a create answered 500 on a context error whose row, with a name of 100
\* characters, is in the table under the last id of the sequence
C23_Witness ==
    /\ IsOp("create") /\ resp[1].status = 500
    /\ calls # <<>> /\ calls[1].err = ErrDeadline
    /\ req[1].name = Name100
    /\ (nextId - 1) \in DOMAIN rows
    /\ rows[nextId - 1].name = Name100
    /\ rows[nextId - 1].dob = ParseDate(req[1].dob)




(* Claims about requests served at the same time. *)

\* the positions in the schedule of the statements op that took effect
Effective(op) ==
    {i \in 1..Len(log) : /\ log[i].op = op
                         /\ inflight[log[i].client].result # <<>>
                         /\ inflight[log[i].client].result[1].err = ""}

\* the request whose statement is at position i of the schedule
RequestAt(i) == inflight[log[i].client].request[1]

Last(S) == CHOOSE i \in S : \A j \in S : j <= i

\* C21: of the update_user requests on one id served at the same time,
\* every one whose UPDATE statement finds the row succeeds and is answered
\* 200 with the name and dob it sent, whatever the others did; and the row
\* has the name and the dob of the request whose UPDATE statement was
\* executed last, both of them, never the name of one request and the dob of
\* another.
C21_LastUpdateWinsWhole ==
    LET updates == {i \in 1..Len(log) : log[i].op = "Update"}
    IN  /\ \A i \in updates :
              LET c     == log[i].client
                  found == \A j \in Effective("Delete") : j > i
              IN  /\ found <=> i \in Effective("Update")
                  /\ (found /\ inflight[c].pc = "done") =>
                        /\ inflight[c].answer[1].status = 200
                        /\ inflight[c].answer[1].body.name = RequestAt(i).name
                        /\ inflight[c].answer[1].body.dob = RequestAt(i).dob
        /\ (SharedId \in DOMAIN rows /\ Effective("Update") # {}) =>
              LET sent == RequestAt(Last(Effective("Update")))
              IN  /\ rows[SharedId].name = sent.name
                  /\ FormatDate(rows[SharedId].dob) = sent.dob

\* clients 1 and 2 sent updates with different names and dobs; the UPDATE of
\* client 1 ran first, that of client 2 second, before either was answered;
\* both have their 200 and the row is the one client 2 sent
C21_Witness ==
    /\ Len(log) >= 4
    /\ log[1] = Step(1, "Update", rows) /\ log[2] = Step(2, "Update", rows)
    /\ log[3].op = "Respond" /\ log[4].op = "Respond"
    /\ inflight[1].pc = "done" /\ inflight[2].pc = "done"
    /\ inflight[1].answer[1].status = 200 /\ inflight[2].answer[1].status = 200
    /\ inflight[1].request[1].name # inflight[2].request[1].name
    /\ inflight[1].request[1].dob # inflight[2].request[1].dob
    /\ rows[SharedId].name = inflight[2].request[1].name
    /\ FormatDate(rows[SharedId].dob) = inflight[2].request[1].dob
    /\ inflight[1].answer[1].body.name # rows[SharedId].name




\* the position in the schedule of client c's statement op
StepOf(c, op) == CHOOSE i \in 1..Len(log) : log[i].client = c /\ log[i].op = op

\* the rows added, less the rows removed, by the statements between
\* positions i and j of the schedule
NetWrites(i, j) ==
    Cardinality({k \in Effective("Create") : i < k /\ k < j})
    - Cardinality({k \in Effective("Delete") : i < k /\ k < j})

Smaller(a, b) == IF a < b THEN a ELSE b

\* the list requests that are back from the service with a page
Listed ==
    {c \in Clients : /\ inflight[c].pc \in {"respond", "done"}
                     /\ inflight[c].request[1].op = "list"
                     /\ inflight[c].result[1].err = ""}

\* C22: list_users makes two Store calls, List first and Count second; the
\* users it returns are the page of the table as it was at the first call,
\* the total is the number of rows at the second, and total_pages follows
\* from that total: so the total is the number of rows the page was read
\* from plus the rows created and less the rows deleted between the two
\* calls, and the same number when nothing was written in between.
C22_TotalIsCountAtSecondRead ==
    \A c \in Listed :
        LET i      == StepOf(c, "List")
            j      == StepOf(c, "Count")
            result == inflight[c].result[1]
            body   == result.val[1]
            p      == SetDefaults(QueryParser(inflight[c].request[1].page,
                                              inflight[c].request[1].page_size))
            rest   == log[i].n - GetOffset(p)
        IN  /\ i < j
            /\ Len(result.calls) = 2
            /\ result.calls[1].op = "List" /\ result.calls[2].op = "Count"
            /\ Len(body.users) = IF rest < 0 THEN 0 ELSE Smaller(GetLimit(p), rest)
            /\ body.total = log[j].n
            /\ body.total_pages = TotalPages(body.total, p.PageSize)
            /\ body.total = log[i].n + NetWrites(i, j)
            /\ NetWrites(i, j) = 0 => body.total = log[i].n
            /\ inflight[c].pc = "done" =>
                  (inflight[c].answer[1].status = 200
                   /\ inflight[c].answer[1].body = body)

\* a list answered with the two users the table had when the page was read
\* and a total of 1: a delete was executed between the two reads
C22_Witness ==
    \E c \in Listed :
        /\ inflight[c].pc = "done"
        /\ Len(inflight[c].answer[1].body.users) = 2
        /\ inflight[c].answer[1].body.total = 1
        /\ NetWrites(StepOf(c, "List"), StepOf(c, "Count")) = -1

====
